---- MODULE Spec2Model ----
(***************************************************************************)
(* Model of src/src/options.py: the Black-Scholes pricer                   *)
(* (BlackScholesModel) and the path simulator (monte_carlo_simulation).    *)
(*                                                                         *)
(* Numbers.  The program computes in IEEE-754 binary64.  The model keeps   *)
(* of a double what decides the properties checked here: whether it is     *)
(* NaN, an infinity, zero, or a finite non-zero value, its sign, and its   *)
(* magnitude where that is known.  A double is a record [c, s, v]:         *)
(*   c = "num"  an ordinary number, v its value in units of 1/Scale        *)
(*   c = "big"  s * e^(v/Scale): a non-zero finite value kept by the       *)
(*              logarithm of its magnitude (results of exp and their       *)
(*              products, which span the whole range of the format)        *)
(*   c = "unk"  a non-zero finite value of sign s, magnitude not tracked   *)
(*   c = "fin"  a finite value, sign and magnitude not tracked             *)
(*   c = "inf"  s * infinity          c = "nan"  NaN                       *)
(* Overflow to infinity and underflow to zero happen where binary64 has    *)
(* them (ExpMaxArg, ExpMinArg).  Ordinary numbers are truncated to 1/Scale; *)
(* the inputs drawn below keep every tracked value further than that from  *)
(* the boundaries at which the class of a result changes.                  *)
(***************************************************************************)
EXTENDS Integers, Sequences, FiniteSets, TLC

VARIABLES
    args,      \* simulator: the arguments of the monte_carlo_simulation call
    pc,        \* simulator: position in the call: "start", "loop", "done"
    i,         \* simulator: the loop variable of line 82
    dt,        \* simulator: the local dt of line 78
    paths,     \* simulator: the local array paths, [shape, data]
    written,   \* simulator: the cells <<p, j>> assigned since np.zeros
    stream,    \* simulator: the draws consumed from the random stream, in order
    outcome,   \* simulator: how the call ended
    self,      \* pricer: the fields of the BlackScholesModel object
    ctor,      \* pricer: the arguments its constructor was given
    calls,     \* pricer: number of pricing calls made so far
    last       \* pricer: the last pricing call: [op, K, outcome]

vars == <<args, pc, i, dt, paths, written, stream, outcome, self, ctor, calls, last>>
simVars == <<args, pc, i, dt, paths, written, stream, outcome>>
pricerVars == <<self, ctor, calls, last>>

(***************************************************************************)
(* Bounds of the model.                                                    *)
(***************************************************************************)
MaxPaths == 2
MaxSteps == 2
MaxCalls == 2

(***************************************************************************)
(* binary64 arithmetic.                                                    *)
(***************************************************************************)
Scale == 1000

\* np.exp(x) is +inf for x > ln(DBL_MAX) = 709.78 and 0.0 for
\* x < ln(2^-1075) = -745.13; a product of doubles leaves the finite
\* non-zero range at the same magnitudes.
ExpMaxArg == 709782
ExpMinArg == -745133

\* stats.norm.cdf(d) is 0.0 for d <= -39 and 1.0 for d >= 8.3.
CdfZeroBelow == -39000
CdfOneAbove == 8300

NaN == [c |-> "nan", s |-> 0, v |-> 0]
Inf(s) == [c |-> "inf", s |-> s, v |-> 0]
Sgn(n) == IF n > 0 THEN 1 ELSE IF n < 0 THEN -1 ELSE 0
Abs(n) == IF n < 0 THEN -n ELSE n
Num(n) == [c |-> "num", s |-> Sgn(n), v |-> n]
Big(s, l) == [c |-> "big", s |-> s, v |-> l]
Unk(s) == [c |-> "unk", s |-> s, v |-> 0]
Fin == [c |-> "fin", s |-> 0, v |-> 0]

IsNaN(x) == x.c = "nan"
IsInf(x) == x.c = "inf"
IsZero(x) == x.c = "num" /\ x.v = 0

\* The natural logarithm, in units of 1/Scale, of the values whose
\* logarithm the program takes or whose magnitude enters a product.
Ln(n) ==
    CASE n = 500 -> -693
      [] n = 1000 -> 0
      [] n = 2000 -> 693
      [] n = 100000 -> 4605

\* floor(sqrt(n)) of a natural number, by Newton's iteration from q >= sqrt(n).
RECURSIVE SqrtFrom(_, _)
SqrtFrom(n, q) ==
    LET next == (q + n \div q) \div 2
    IN IF next >= q THEN q ELSE SqrtFrom(n, next)

ISqrt(n) == IF n = 0 THEN 0 ELSE SqrtFrom(n, n)

\* a / b with Python numbers, b # 0 (b = 0 raises ZeroDivisionError).
PyDiv(a, b) == Num(Sgn(a) * Sgn(b) * ((Abs(a) * Scale) \div Abs(b)))

\* A finite non-zero value of sign s and magnitude e^(l/Scale), rounded to
\* binary64: +-inf above the largest double, 0.0 below half the smallest.
Round(s, l) ==
    IF l > ExpMaxArg THEN Inf(s)
    ELSE IF l < ExpMinArg THEN Num(0)
    ELSE Big(s, l)

HasLog(x) == x.c = "big" \/ (x.c = "num" /\ x.v # 0)
Lg(x) == IF x.c = "big" THEN x.v ELSE Ln(Abs(x.v))

FNeg(x) ==
    CASE x.c = "num" -> Num(-x.v)
      [] x.c = "inf" -> Inf(-x.s)
      [] x.c = "big" -> Big(-x.s, x.v)
      [] x.c = "unk" -> Unk(-x.s)
      [] OTHER -> x

FMul(x, y) ==
    IF IsNaN(x) \/ IsNaN(y) THEN NaN
    ELSE IF IsInf(x) \/ IsInf(y)
        THEN IF IsZero(x) \/ IsZero(y) \/ x.c = "fin" \/ y.c = "fin"
             THEN NaN ELSE Inf(x.s * y.s)
    ELSE IF IsZero(x) \/ IsZero(y) THEN Num(0)
    ELSE IF x.c = "num" /\ y.c = "num"
        THEN Num(x.s * y.s * ((Abs(x.v) * Abs(y.v)) \div Scale))
    ELSE IF HasLog(x) /\ HasLog(y) THEN Round(x.s * y.s, Lg(x) + Lg(y))
    ELSE IF x.c = "fin" \/ y.c = "fin" THEN Fin
    ELSE Unk(x.s * y.s)

FAdd(x, y) ==
    IF IsNaN(x) \/ IsNaN(y) THEN NaN
    ELSE IF IsInf(x) /\ IsInf(y) THEN (IF x.s = y.s THEN x ELSE NaN)
    ELSE IF IsInf(x) THEN x
    ELSE IF IsInf(y) THEN y
    ELSE IF x.c = "num" /\ y.c = "num" THEN Num(x.v + y.v)
    ELSE IF IsZero(x) THEN y
    ELSE IF IsZero(y) THEN x
    ELSE IF x.c = "fin" \/ y.c = "fin" \/ x.s # y.s THEN Fin
    ELSE Unk(x.s)

FSub(x, y) == FAdd(x, FNeg(y))

\* numpy's float64 division: a zero divisor gives +-inf or NaN (with a
\* RuntimeWarning), never an exception.  Used on ordinary numbers only.
FDiv(x, y) ==
    IF IsNaN(x) \/ IsNaN(y) THEN NaN
    ELSE IF IsInf(x) THEN (IF IsInf(y) THEN NaN
                           ELSE Inf(x.s * (IF y.s = 0 THEN 1 ELSE y.s)))
    ELSE IF IsInf(y) THEN Num(0)
    ELSE IF y.v = 0 THEN (IF x.v = 0 THEN NaN ELSE Inf(x.s))
    ELSE Num(x.s * y.s * ((Abs(x.v) * Scale) \div Abs(y.v)))

NpSqrt(x) ==
    CASE x.c = "nan" -> NaN
      [] x.c = "inf" -> (IF x.s > 0 THEN x ELSE NaN)
      [] x.c = "num" -> (IF x.v < 0 THEN NaN ELSE Num(ISqrt(x.v * Scale)))

NpLog(x) ==
    CASE x.c = "nan" -> NaN
      [] x.c = "inf" -> (IF x.s > 0 THEN x ELSE NaN)
      [] x.c = "num" -> (IF x.v < 0 THEN NaN
                         ELSE IF x.v = 0 THEN Inf(-1)
                         ELSE Num(Ln(x.v)))

NpExp(x) ==
    CASE x.c = "nan" -> NaN
      [] x.c = "inf" -> (IF x.s > 0 THEN x ELSE Num(0))
      [] x.c = "num" -> Round(1, x.v)

NormCdf(x) ==
    CASE x.c = "nan" -> NaN
      [] x.c = "inf" -> (IF x.s > 0 THEN Num(Scale) ELSE Num(0))
      [] x.c = "num" -> (IF x.v <= CdfZeroBelow THEN Num(0)
                         ELSE IF x.v >= CdfOneAbove THEN Num(Scale)
                         ELSE Unk(1))

\* x > 0 as numpy evaluates it: False for NaN and for zero.  The simulator
\* never subtracts, so no cell of its array is a "fin" value.
FGtZero(x) == x.c # "nan" /\ x.c # "fin" /\ x.s > 0
\* x >= 0 is certainly False: x is NaN or of known negative sign.
FNotGeZero(x) == IsNaN(x) \/ (x.c # "fin" /\ x.s < 0)
IsFiniteF(x) == ~IsNaN(x) /\ ~IsInf(x)

(***************************************************************************)
(* How a call ends.                                                        *)
(***************************************************************************)
NoValue == [c |-> "none", s |-> 0, v |-> 0]
Pending == [kind |-> "pending", exc |-> "", value |-> NoValue]
Raise(e) == [kind |-> "raise", exc |-> e, value |-> NoValue]
Return(x) == [kind |-> "return", exc |-> "", value |-> x]
\* A call that returned the array it built (the variable paths).
Returned == [kind |-> "return", exc |-> "", value |-> NoValue]

(***************************************************************************)
(* monte_carlo_simulation (options.py lines 62-86).                        *)
(***************************************************************************)
\* Inputs of the simulator, in units of 1/Scale: S0 in {1, 100}, r = 0.05,
\* sigma in {0, 0.2, 40}, T = 1; the draws z in {-1, 0, 1}.
SimS0 == {1000, 100000}
SimR == {50}
SimSigma == {0, 200, 40000}
SimT == {1000}
ZSet == {-1000, 0, 1000}

\* A variant of NpZeros that allocates one column too few (n_steps columns
\* instead of n_steps + 1).
NpZerosShort(rows, cols) ==
    [shape |-> <<rows, cols - 1>>,
     data |-> [p \in 0..(rows - 1) |-> [j \in 0..(cols - 2) |-> Num(0)]]]

\* np.zeros((rows, cols)): a rows x cols array of 0.0, rows and columns
\* indexed from 0.
NpZeros(rows, cols) ==
    [shape |-> <<rows, cols>>,
     data |-> [p \in 0..(rows - 1) |-> [j \in 0..(cols - 1) |-> Num(0)]]]

\* numpy's index normalisation on an axis of size n: a negative index
\* counts from the end.
NpIndex(j, n) == IF j < 0 THEN j + n ELSE j
InBounds(j, n) == NpIndex(j, n) >= 0 /\ NpIndex(j, n) < n

Rows(A) == A.shape[1]
Cols(A) == A.shape[2]

\* paths[:, j] = col  (col a function of the row index)
SetColumn(A, j, col) ==
    [A EXCEPT !.data =
        [p \in 0..(Rows(A) - 1) |->
            [A.data[p] EXCEPT ![NpIndex(j, Cols(A))] = col[p]]]]

Cell(A, p, j) == A.data[p][NpIndex(j, Cols(A))]

\* The first value of the loop variable: range(1, n_steps + 1).
RangeStart == 1

\* T / n_steps with Python numbers, n_steps # 0.
TimeStep(T, n_steps) == PyDiv(T, n_steps * Scale)

\* np.exp((r - 0.5*sigma**2)*dt + sigma*np.sqrt(dt)*z) for one draw z.
Factor(a, d, z) ==
    NpExp(FAdd(FMul(FSub(Num(a.r),
                         FMul(Num(Scale \div 2),
                              FMul(Num(a.sigma), Num(a.sigma)))),
                    d),
               FMul(FMul(Num(a.sigma), NpSqrt(d)), Num(z))))

\* z = np.random.standard_normal(n): the next n draws of the stream, as an
\* array indexed from 0.
ZArrays(n) == [0..(n - 1) -> ZSet]
Consumed(z, n) == [k \in 1..n |-> z[k - 1]]

\* A variant of DrawOf in which every path is given the first draw of the
\* step.
DrawOfShared(z, p) == z[0]

\* The draw that row p of the elementwise product pairs with path p.
DrawOf(z, p) == z[p]

\* A variant of StepColumn that updates the previous column in place:
\* paths[:, j-1] = paths[:, j-1] * np.exp(... z).
StepColumnInPlace(A, a, d, j, z) ==
    SetColumn(A, j - 1,
        [p \in 0..(Rows(A) - 1) |->
            FMul(Cell(A, p, j - 1), Factor(a, d, z[p]))])

\* paths[:, j] = paths[:, j-1] * np.exp(... z): the new column j.
StepColumn(A, a, d, j, z) ==
    SetColumn(A, j,
        [p \in 0..(Rows(A) - 1) |->
            FMul(Cell(A, p, j - 1), Factor(a, d, DrawOf(z, p)))])

\* The simulator's variables while no simulation runs.
NoArgs == [S0 |-> 0, r |-> 0, sigma |-> 0, T |-> 0, n_paths |-> 0, n_steps |-> 0]
NoArray == [shape |-> <<0, 0>>, data |-> <<>>]

SimArgs ==
    [S0 : SimS0, r : SimR, sigma : SimSigma, T : SimT,
     n_paths : (-1)..MaxPaths, n_steps : (-2)..MaxSteps]

\* Lines 78-80: dt, the array, column 0.
Begin ==
    /\ pc = "start"
    /\ IF args.n_steps = 0
       THEN \* line 78: float division by zero
            /\ outcome' = Raise("ZeroDivisionError")
            /\ pc' = "done"
            /\ UNCHANGED <<i, dt, paths, written>>
       ELSE IF args.n_paths < 0 \/ args.n_steps + 1 < 0
       THEN \* line 79: negative dimensions are not allowed
            /\ outcome' = Raise("ValueError")
            /\ pc' = "done"
            /\ dt' = TimeStep(args.T, args.n_steps)
            /\ UNCHANGED <<i, paths, written>>
       ELSE LET A == NpZeros(args.n_paths, args.n_steps + 1) IN
            IF ~InBounds(0, Cols(A))
            THEN \* line 80: index 0 is out of bounds for axis 1 with size 0
                 /\ outcome' = Raise("IndexError")
                 /\ pc' = "done"
                 /\ dt' = TimeStep(args.T, args.n_steps)
                 /\ paths' = A
                 /\ UNCHANGED <<i, written>>
            ELSE /\ paths' = SetColumn(A, 0, [p \in 0..(Rows(A) - 1) |-> Num(args.S0)])
                 /\ written' = {<<p, 0>> : p \in 0..(Rows(A) - 1)}
                 /\ dt' = TimeStep(args.T, args.n_steps)
                 /\ i' = RangeStart
                 /\ pc' = "loop"
                 /\ UNCHANGED outcome
    /\ UNCHANGED <<args, stream>>
    /\ UNCHANGED pricerVars

\* Lines 82-84: one iteration of the loop.
Step ==
    /\ pc = "loop"
    /\ i < args.n_steps + 1
    /\ \E z \in ZArrays(args.n_paths) :
        /\ stream' = stream \o Consumed(z, args.n_paths)
        /\ IF InBounds(i, Cols(paths)) /\ InBounds(i - 1, Cols(paths))
           THEN /\ paths' = StepColumn(paths, args, dt, i, z)
                /\ written' = written \cup
                       {<<p, NpIndex(i, Cols(paths))>> : p \in 0..(Rows(paths) - 1)}
                /\ i' = i + 1
                /\ UNCHANGED <<pc, outcome>>
           ELSE /\ outcome' = Raise("IndexError")
                /\ pc' = "done"
                /\ UNCHANGED <<paths, written, i>>
    /\ UNCHANGED <<args, dt>>
    /\ UNCHANGED pricerVars

\* Line 86: return paths.
Finish ==
    /\ pc = "loop"
    /\ ~(i < args.n_steps + 1)
    /\ pc' = "done"
    /\ outcome' = Returned
    /\ UNCHANGED <<args, i, dt, paths, written, stream>>
    /\ UNCHANGED pricerVars

SimNext == Begin \/ Step \/ Finish

(***************************************************************************)
(* BlackScholesModel (options.py lines 12-60).                             *)
(***************************************************************************)
\* Inputs of the pricer, in units of 1/Scale: S0 in {1, 2},
\* r in {-1000, 0, 0.05}, sigma in {0, 0.2, 1}, T in {0, 1, 2},
\* K in {-1, 0, 1, 2}.
PrS0 == {1000, 2000}
PrR == {-1000000, 0, 50}
PrSigma == {0, 200, 1000}
PrT == {0, 1000, 2000}
PrK == {-1000, 0, 1000, 2000}

\* __init__: the four fields, as given.
BlackScholesModel(S0, r, sigma, T) ==
    [S0 |-> S0, r |-> r, sigma |-> sigma, T |-> T]

\* sigma*np.sqrt(T)
SigmaSqrtT(m) == FMul(Num(m.sigma), NpSqrt(Num(m.T)))

\* Lines 40 and 56.
D1(m, K) ==
    FDiv(FAdd(NpLog(PyDiv(m.S0, K)),
              FMul(FAdd(Num(m.r),
                        FMul(Num(Scale \div 2), FMul(Num(m.sigma), Num(m.sigma)))),
                   Num(m.T))),
         SigmaSqrtT(m))

\* Lines 41 and 57.
D2(m, K) == FSub(D1(m, K), SigmaSqrtT(m))

\* K*np.exp(-self.r*self.T)
Discounted(m, K) == FMul(Num(K), NpExp(FMul(FNeg(Num(m.r)), Num(m.T))))

\* Lines 40-44: the value the call returns or the exception it raises.
CallOutcome(m, K) ==
    IF K = 0 THEN Raise("ZeroDivisionError")
    ELSE Return(FSub(FMul(Num(m.S0), NormCdf(D1(m, K))),
                     FMul(Discounted(m, K), NormCdf(D2(m, K)))))

\* Lines 56-60.
PutOutcome(m, K) ==
    IF K = 0 THEN Raise("ZeroDivisionError")
    ELSE Return(FSub(FMul(Discounted(m, K), NormCdf(FNeg(D2(m, K)))),
                     FMul(Num(m.S0), NormCdf(FNeg(D1(m, K))))))

\* A variant of european_call_price that keeps sqrt(T) in the field T.
european_call_price_caching(m, K) ==
    [self |-> [m EXCEPT !.T = NpSqrt(Num(m.T)).v], outcome |-> CallOutcome(m, K)]

\* The methods: the object after the call and the call's outcome.  Neither
\* method assigns to a field of self.
european_call_price(m, K) == [self |-> m, outcome |-> CallOutcome(m, K)]
european_put_price(m, K) == [self |-> m, outcome |-> PutOutcome(m, K)]

\* The pricer's variables while no model exists.
NoModel == [S0 |-> 0, r |-> 0, sigma |-> 0, T |-> 0]
NoCall == [op |-> "none", K |-> 0, outcome |-> Pending]

CallPrice ==
    /\ calls < MaxCalls
    /\ \E K \in PrK :
        LET res == european_call_price(self, K) IN
        /\ self' = res.self
        /\ last' = [op |-> "call", K |-> K, outcome |-> res.outcome]
    /\ calls' = calls + 1
    /\ UNCHANGED ctor
    /\ UNCHANGED simVars

PutPrice ==
    /\ calls < MaxCalls
    /\ \E K \in PrK :
        LET res == european_put_price(self, K) IN
        /\ self' = res.self
        /\ last' = [op |-> "put", K |-> K, outcome |-> res.outcome]
    /\ calls' = calls + 1
    /\ UNCHANGED ctor
    /\ UNCHANGED simVars

PricerNext == CallPrice \/ PutPrice

(***************************************************************************)
(* Specifications: one call of the simulator; one pricer object and a      *)
(* sequence of pricing calls on it.                                        *)
(***************************************************************************)
\* A call monte_carlo_simulation(S0, r, sigma, T, n_paths, n_steps) begins.
InitSim ==
    /\ args \in SimArgs
    /\ pc = "start"
    /\ i = 0
    /\ dt = NoValue
    /\ paths = NoArray
    /\ written = {}
    /\ stream = <<>>
    /\ outcome = Pending
    /\ self = NoModel
    /\ ctor = NoModel
    /\ calls = 0
    /\ last = NoCall

\* A BlackScholesModel(S0, r, sigma, T) has been constructed.
InitPricer ==
    /\ \E S0 \in PrS0, r \in PrR, sigma \in PrSigma, T \in PrT :
        /\ self = BlackScholesModel(S0, r, sigma, T)
        /\ ctor = [S0 |-> S0, r |-> r, sigma |-> sigma, T |-> T]
    /\ calls = 0
    /\ last = NoCall
    /\ args = NoArgs
    /\ pc = "idle"
    /\ i = 0
    /\ dt = NoValue
    /\ paths = NoArray
    /\ written = {}
    /\ stream = <<>>
    /\ outcome = Pending

SpecSim == InitSim /\ [][SimNext]_vars
SpecPricer == InitPricer /\ [][PricerNext]_vars

(***************************************************************************)
(* Properties of monte_carlo_simulation, checked under SpecSim.            *)
(***************************************************************************)
SimReturned == pc = "done" /\ outcome = Returned
PathIds == 0..(args.n_paths - 1)
AllCells == {<<p, j>> : p \in PathIds, j \in 0..args.n_steps}

\* C1: for n_paths >= 1 and n_steps >= 1 the call returns an array of
\* exactly n_paths rows and n_steps + 1 columns, every cell of which has
\* been assigned (column 0 at line 80, columns 1..n_steps by the loop).
C1_ShapeAndEveryCellWritten ==
    (pc = "done" /\ args.n_paths >= 1 /\ args.n_steps >= 1) =>
        /\ outcome = Returned
        /\ paths.shape = <<args.n_paths, args.n_steps + 1>>
        /\ DOMAIN paths.data = PathIds
        /\ \A p \in PathIds : DOMAIN paths.data[p] = 0..args.n_steps
        /\ written = AllCells

C1_Witness ==
    SimReturned /\ args.n_paths >= 2 /\ args.n_steps >= 2 /\ written = AllCells

\* C2: column 0 of every path equals S0 exactly from its assignment on,
\* whatever was drawn: no iteration of the loop writes column 0.
C2_ColumnZeroIsS0 ==
    (pc \in {"loop", "done"} /\ outcome.kind # "raise") =>
        \A p \in PathIds : Cell(paths, p, 0) = Num(args.S0)

C2_Witness ==
    /\ SimReturned /\ args.n_paths >= 1 /\ args.n_steps >= 2
    /\ \E p \in PathIds : Cell(paths, p, 1) # Num(args.S0)
    /\ \E k \in 1..Len(stream) : stream[k] # 0

\* C3: for S0 > 0 every entry of the returned array is strictly positive.
C3_EveryEntryPositive ==
    (SimReturned /\ args.S0 > 0) =>
        \A c \in AllCells : FGtZero(Cell(paths, c[1], c[2]))

\* C5: whenever n_paths < 1 or n_steps < 1 the call ends in an error and
\* returns no array (any exception is taken as the rejection).
C5_NonPositiveResolutionRejected ==
    (pc = "done" /\ (args.n_paths < 1 \/ args.n_steps < 1)) =>
        outcome.kind = "raise"

\* C9: steps are processed in increasing order; the price of path p at step
\* j is the price of the same path at step j-1 times the factor of one draw
\* taken for that (p, j) pair, the draw at position (j-1)*n_paths + p + 1
\* of the stream; n_paths draws are consumed per step, n_paths * n_steps per
\* call.
DrawIndex(p, j) == (j - 1) * args.n_paths + p + 1

C9_OneDrawPerPathAndStep ==
    (pc \in {"loop", "done"} /\ outcome.kind # "raise") =>
        /\ Len(stream) = args.n_paths * (i - 1)
        /\ written = {<<p, j>> : p \in PathIds, j \in 0..(i - 1)}
        /\ \A p \in PathIds : \A j \in 1..(i - 1) :
              Cell(paths, p, j) =
                  FMul(Cell(paths, p, j - 1),
                       Factor(args, dt, stream[DrawIndex(p, j)]))
        /\ (pc = "done" => Len(stream) = args.n_paths * args.n_steps)

C9_Witness ==
    /\ SimReturned /\ args.n_paths >= 2 /\ args.n_steps >= 2 /\ args.sigma > 0
    /\ Len(stream) = args.n_paths * args.n_steps
    /\ stream[DrawIndex(0, 1)] # stream[DrawIndex(1, 1)]
    /\ stream[DrawIndex(0, 1)] # stream[DrawIndex(0, 2)]

(***************************************************************************)
(* Properties of BlackScholesModel, checked under SpecPricer.              *)
(***************************************************************************)
\* The data model's invariant on the model parameters.
ValidModel(m) == m.S0 > 0 /\ m.sigma > 0 /\ m.T > 0
Called == last.op # "none"

\* C4: a pricing call with K = 0 or K < 0 on a valid model ends in an error
\* and returns no price (any exception is taken as the rejection).
C4_NonPositiveStrikeRejected ==
    (Called /\ last.K <= 0 /\ ValidModel(self)) => last.outcome.kind = "raise"

\* C6: put-call parity: for a valid model and K > 0,
\* |(call - put) - (S0 - K*exp(-r*T))| < 1e-10.  A difference that is NaN
\* or infinite fails the comparison; a finite difference whose magnitude
\* the model does not track is taken to pass.
ParityGap(m, K) ==
    FSub(FSub(CallOutcome(m, K).value, PutOutcome(m, K).value),
         FSub(Num(m.S0), Discounted(m, K)))

C6_PutCallParity ==
    (Called /\ last.K > 0 /\ ValidModel(self)) =>
        IsFiniteF(ParityGap(self, last.K))

\* C7: for a valid model and K > 0 both prices are >= 0.  A finite price
\* whose sign the model does not track is taken to pass.
C7_PricesNonNegative ==
    (Called /\ last.K > 0 /\ ValidModel(self)) =>
        /\ last.outcome.kind = "return"
        /\ ~FNotGeZero(last.outcome.value)

\* C8: with sigma = 0 or T = 0 a pricing call (K > 0) ends in an error, and
\* no pricing call returns NaN or an infinity as a price.
C8_DegenerateModelRejected ==
    (Called /\ last.K > 0) =>
        /\ (self.sigma = 0 \/ self.T = 0) => last.outcome.kind = "raise"
        /\ last.outcome.kind = "return" => IsFiniteF(last.outcome.value)

\* C10: after any sequence of pricing calls the fields S0, r, sigma and T
\* are those given to the constructor, so the outcome of a call for a given
\* K is the one computed from the constructor's arguments, whatever calls
\* preceded it.
C10_PricingLeavesModelUnchanged ==
    /\ self = ctor
    /\ last.op = "call" => last.outcome = CallOutcome(ctor, last.K)
    /\ last.op = "put" => last.outcome = PutOutcome(ctor, last.K)

C10_Witness ==
    /\ calls >= 2 /\ last.op = "put" /\ last.K > 0
    /\ ValidModel(self) /\ self.T # Scale
    /\ last.outcome.kind = "return" /\ IsFiniteF(last.outcome.value)

====
